---------------------------- MODULE Spec2Model ----------------------------
(***************************************************************************)
(* Radial basis function networks of pyrbfn.py: the two kernels            *)
(* (GaussianRBF, VonMisesRBF) and the five networks (RBFN, NormalizedRBFN, *)
(* HyperplaneRBFN, AdaptiveRBFN, AdaptiveHyperplaneRBFN) with their        *)
(* evaluate and train methods.                                             *)
(*                                                                         *)
(* Numbers.  The program computes in binary64.  The model computes in a    *)
(* decimal fixed-point format with six fractional digits: a number v is    *)
(* the integer v * Scale, every product and quotient is rounded to the     *)
(* nearest representable number, sums and differences are exact.  The      *)
(* format keeps the properties of binary64 the program relies on:          *)
(*   x * 1 = x,  x * 0 = 0,  x + 0 = x,  x / x = 1 for x # 0,              *)
(*   a product or an exp that is too small rounds to 0 (underflow),        *)
(*   0 / 0 is NaN and NaN propagates through every operation.              *)
(* Underflow happens at the format's own threshold: exp(z) is 0 below      *)
(* about z = -14.5 here and below z = -745.2 in binary64.  Overflow to     *)
(* infinity is outside the model, and so is every number of magnitude      *)
(* 1000 or more: the guards of the actions take no step that computes one, *)
(* and keep every stored number below MaxMag and sigma away from 0.        *)
(***************************************************************************)
EXTENDS Integers, Sequences, FiniteSets, TLC

\* ------------------------------------------------------------------------
\* Fixed-point arithmetic
\* ------------------------------------------------------------------------

Kilo == 10 * 10 * 10
Scale == Kilo * Kilo
Half == Scale \div 2

\* The one non-finite value (0/0 and everything computed from it).
NaN == 2147 * Scale + 483647

\* The model's range: a number of magnitude Limit or more is not computed;
\* its place is taken by Out, and no step whose computation meets Out is
\* taken (the guards of the actions).
Limit == 1000 * Scale
Out == NaN - 1

\* Number literals: Fx(n, k) is n / 10^k for k in 0..3.
Fx(n, k) == n * (IF k = 0 THEN Scale ELSE IF k = 1 THEN Scale \div 10
                 ELSE IF k = 2 THEN Scale \div 100 ELSE Kilo)

One == Scale

Abs(a) == IF a < 0 THEN 0 - a ELSE a

Sgn(a) == IF a < 0 THEN 0 - 1 ELSE IF a = 0 THEN 0 ELSE 1

IsNaN(a) == a = NaN

\* The result of an operation on a and b when either is NaN or Out, else v.
Lifted(a, b, v) ==
    IF a = NaN \/ b = NaN THEN NaN ELSE IF a = Out \/ b = Out THEN Out ELSE v

FAdd(a, b) ==
    Lifted(a, b, IF Abs(a + b) >= Limit THEN Out ELSE a + b)

FSub(a, b) ==
    Lifted(a, b, IF Abs(a - b) >= Limit THEN Out ELSE a - b)

\* round(a * b / Scale) for a, b >= 0, computed in parts (b's integer part,
\* then thousands and units of a and of b's fraction) so that no
\* intermediate value is larger than the result.
MulMag(a, b) ==
    LET f  == b % Scale
        aH == a \div Kilo
        aL == a % Kilo
        fH == f \div Kilo
        fL == f % Kilo
        t  == aH * fL + aL * fH
    IN  a * (b \div Scale) + aH * fH + (t \div Kilo)
          + (((t % Kilo) * Kilo + aL * fL + Half) \div Scale)

FMul(a, b) ==
    Lifted(a, b,
        IF Abs(a) \div Kilo >= Limit \div ((Abs(b) \div Kilo) + 1) THEN Out
        ELSE Sgn(a) * Sgn(b) * MulMag(Abs(a), Abs(b)))

\* The n leading decimal digits of r / b for 0 <= r < b, and the remainder.
RECURSIVE DivDigits(_, _, _, _)
DivDigits(r, b, n, acc) ==
    IF n = 0 THEN <<acc, r>>
    ELSE DivDigits((r * 10) % b, b, n - 1, acc * 10 + ((r * 10) \div b))

\* round(a * Scale / b) for a >= 0, b > 0.
DivMag(a, b) ==
    LET dg == DivDigits(a % b, b, 6, 0)
    IN  (a \div b) * Scale + dg[1] + (IF 2 * dg[2] >= b THEN 1 ELSE 0)

\* 0/0 is NaN; x/0 for x # 0 is an infinity, which is out of range.
FDiv(a, b) ==
    Lifted(a, b,
        IF b = 0 THEN (IF a = 0 THEN NaN ELSE Out)
        ELSE IF Abs(b) >= 200 * Scale \/ Abs(a) \div Abs(b) >= 1000 THEN Out
        ELSE Sgn(a) * Sgn(b) * DivMag(Abs(a), Abs(b)))

\* exp(k) for an integer k, rounded to the format; 0 below the format's
\* smallest positive number.
ExpInt(k) ==
    IF k < 0 - 14 THEN 0
    ELSE CASE k = 0 - 14 -> 1      [] k = 0 - 13 -> 2       [] k = 0 - 12 -> 6
           [] k = 0 - 11 -> 17     [] k = 0 - 10 -> 45      [] k = 0 - 9 -> 123
           [] k = 0 - 8 -> 335     [] k = 0 - 7 -> 912      [] k = 0 - 6 -> 2479
           [] k = 0 - 5 -> 6738    [] k = 0 - 4 -> 18316    [] k = 0 - 3 -> 49787
           [] k = 0 - 2 -> 135335  [] k = 0 - 1 -> 367879   [] k = 0 -> 1000000
           [] k = 1 -> 2718282     [] k = 2 -> 7389056      [] k = 3 -> 20085537
           [] k = 4 -> 54598150    [] k = 5 -> 148413159    [] k = 6 -> 403428793

\* exp(f) for 0 <= f < 1 by its Taylor polynomial in Horner form.
RECURSIVE ExpHorner(_, _, _)
ExpHorner(f, i, t) ==
    IF i = 0 THEN t
    ELSE ExpHorner(f, i - 1, One + ((MulMag(f, t) + (i \div 2)) \div i))

\* np.exp
FExp(z) ==
    IF z = NaN \/ z = Out THEN z
    ELSE LET k == z \div Scale
             f == z - k * Scale
         IN  IF k > 6 THEN Out ELSE MulMag(ExpInt(k), ExpHorner(f, 10, One))

Pi == 3 * Scale + 141593
TwoPi == 2 * Pi

\* cos(a) for 0 <= a <= pi/2 by its Taylor polynomial in u = a^2.
RECURSIVE CosHorner(_, _, _)
CosHorner(u, i, t) ==
    IF i = 0 THEN t
    ELSE LET d == (2 * i - 1) * (2 * i)
             q == MulMag(u, Abs(t))
         IN  CosHorner(u, i - 1, One - Sgn(t) * ((q + (d \div 2)) \div d))

\* np.cos
FCos(z) ==
    IF z = NaN \/ z = Out THEN z
    ELSE LET m == z % TwoPi
             a == IF m > Pi THEN TwoPi - m ELSE m
         IN  IF 2 * a > Pi
             THEN 0 - CosHorner(MulMag(Pi - a, Pi - a), 6, One)
             ELSE CosHorner(MulMag(a, a), 6, One)

\* ------------------------------------------------------------------------
\* Arrays: a vector is a sequence of numbers, a matrix a sequence of rows,
\* a 3-d array a sequence of matrices.  None is Python's None.
\* ------------------------------------------------------------------------

None == <<>>

\* The sequence <<F(1), ..., F(n)>>.
RECURSIVE Vec(_, _)
Vec(F(_), n) == IF n = 0 THEN <<>> ELSE Append(Vec(F, n - 1), F(n))

RECURSIVE SumSeq(_)
SumSeq(v) == IF v = <<>> THEN 0 ELSE FAdd(Head(v), SumSeq(Tail(v)))

\* np.sum(m, axis=1) of a matrix
SumAxis1(m) == Vec(LAMBDA i : SumSeq(m[i]), Len(m))

\* np.sum(t, axis=0) of a 3-d array of shape (O, B, D).
SumAxis0(t) ==
    Vec(LAMBDA b : Vec(LAMBDA d :
        SumSeq(Vec(LAMBDA o : t[o][b][d], Len(t))), Len(t[1][b])), Len(t[1]))

\* a += b on matrices and on 3-d arrays: in place, a keeps its shape.
IAdd2(a, b) == Vec(LAMBDA i : Vec(LAMBDA j : FAdd(a[i][j], b[i][j]), Len(a[i])), Len(a))

IAdd3(a, b) ==
    Vec(LAMBDA i : Vec(LAMBDA j : Vec(LAMBDA k :
        FAdd(a[i][j][k], b[i][j][k]), Len(a[i][j])), Len(a[i])), Len(a))

\* ------------------------------------------------------------------------
\* Kernels.  A network value n is a record of the fields of the network
\* object and of its neurons object:
\*   cls, kind, indim, bases, outdim, alpha, eta   (fixed at construction)
\*   weights, center_weights, h                    (network)
\*   mu, sigma, kappa, c                           (neurons)
\* ------------------------------------------------------------------------

\* (x - self.mu) / self.sigma, x broadcast over the centers
GaussianRBF_get_distance(n, x) ==
    Vec(LAMBDA b : Vec(LAMBDA d :
        FDiv(FSub(x[d], n.mu[b][d]), n.sigma[b][d]), Len(n.mu[b])), Len(n.mu))

\* self.kappa * np.cos(x - self.mu)
VonMisesRBF_get_distance(n, x) ==
    Vec(LAMBDA b : Vec(LAMBDA d :
        FMul(n.kappa[b][d], FCos(FSub(x[d], n.mu[b][d]))), Len(n.mu[b])), Len(n.mu))

\* np.exp of a vector
Exp(s) == Vec(LAMBDA b : FExp(s[b]), Len(s))

\* -0.5*np.sum(c**2, axis=1)
MinusHalfSquares(c) ==
    Vec(LAMBDA b :
        FMul(0 - Half, SumSeq(Vec(LAMBDA d : FMul(c[b][d], c[b][d]), Len(c[b])))), Len(c))

\* What activation leaves in self.c and what it returns.
Activated(c, g) == [c |-> c, g |-> g]

\* self.c = self.get_distance(x); return np.exp(-0.5*np.sum(self.c**2, axis=1))
GaussianRBF_exp(c) == Activated(c, Exp(MinusHalfSquares(c)))

GaussianRBF_activation(n, x) == GaussianRBF_exp(GaussianRBF_get_distance(n, x))

\* self.c = self.get_distance(x); return np.exp(np.sum(self.c, axis=1))
VonMisesRBF_exp(c) == Activated(c, Exp(SumAxis1(c)))

VonMisesRBF_activation(n, x) == VonMisesRBF_exp(VonMisesRBF_get_distance(n, x))

\* self.neurons.activation(x): dispatch on the kernel's class
activation(n, x) ==
    IF n.kind = "GaussianRBF" THEN GaussianRBF_activation(n, x)
    ELSE VonMisesRBF_activation(n, x)

\* ------------------------------------------------------------------------
\* Networks: evaluate returns [n |-> the network after the call, p |-> the
\* returned vector]; train returns the network after the call.
\* ------------------------------------------------------------------------

\* self.h = np.ones((self.outdim, 1)) * g.reshape((1, len(g)))
Tile_h(n, g) == Vec(LAMBDA o : Vec(LAMBDA b : FMul(One, g[b]), Len(g)), n.outdim)

\* self.h * w, elementwise on matrices
Times(h, w) == Vec(LAMBDA o : Vec(LAMBDA b : FMul(h[o][b], w[o][b]), Len(h[o])), Len(h))

\* a + b, elementwise on matrices
Plus(a, b) == Vec(LAMBDA i : Vec(LAMBDA j : FAdd(a[i][j], b[i][j]), Len(a[i])), Len(a))

\* An evaluate that multiplies the weights in place: self.weights *= self.h
Weighted_inplace(n, c, h) ==
    [n |-> [n EXCEPT !.c = c, !.h = h, !.weights = Times(h, n.weights)],
     p |-> SumAxis1(Times(h, n.weights))]

\* a = self.h * self.weights; return np.sum(a, axis=1), with c and h cached
Weighted(n, c, h) ==
    [n |-> [n EXCEPT !.c = c, !.h = h], p |-> SumAxis1(Times(h, n.weights))]

\* RBFN.evaluate, from what activation left and returned
RBFN_forward(n, act) == Weighted(n, act.c, Tile_h(n, act.g))

\* RBFN.evaluate
RBFN_evaluate(n, x) == RBFN_forward(n, activation(n, x))

\* A normalisation that is skipped
NormalizeSkipped(g) == g

\* g / s, elementwise on a vector
Over(g, s) == Vec(LAMBDA b : FDiv(g[b], s), Len(g))

\* g /= np.sum(g)
Normalize(g) == Over(g, SumSeq(g))

\* NormalizedRBFN.evaluate, from what activation left and returned
NormalizedRBFN_forward(n, act) == Weighted(n, act.c, Tile_h(n, Normalize(act.g)))

\* NormalizedRBFN.evaluate
NormalizedRBFN_evaluate(n, x) == NormalizedRBFN_forward(n, activation(n, x))

\* A hyperplane term that adds where it should multiply:
\* np.sum(self.center_weights + self.neurons.c, axis=2)
HyperplaneTermAdded(center_weights, c) ==
    Vec(LAMBDA o : Vec(LAMBDA b :
        SumSeq(Vec(LAMBDA d : FAdd(center_weights[o][b][d], c[b][d]), Len(center_weights[o][b]))), Len(center_weights[o])), Len(center_weights))

\* w = self.center_weights * self.neurons.c; np.sum(w, axis=2)
HyperplaneTerm(center_weights, c) ==
    Vec(LAMBDA o : Vec(LAMBDA b :
        SumSeq(Vec(LAMBDA d : FMul(center_weights[o][b][d], c[b][d]), Len(center_weights[o][b]))), Len(center_weights[o])), Len(center_weights))

\* a = self.h * (self.weights + np.sum(w, axis=2)); return np.sum(a, axis=1)
HyperplaneWeighted(n, c, h) ==
    [n |-> [n EXCEPT !.c = c, !.h = h],
     p |-> SumAxis1(Times(h, Plus(n.weights, HyperplaneTerm(n.center_weights, c))))]

\* HyperplaneRBFN.evaluate, from what activation left and returned
HyperplaneRBFN_forward(n, act) ==
    HyperplaneWeighted(n, act.c, Tile_h(n, Normalize(act.g)))

\* HyperplaneRBFN.evaluate
HyperplaneRBFN_evaluate(n, x) == HyperplaneRBFN_forward(n, activation(n, x))

\* self.evaluate(x): dispatch on the network's class
evaluate(n, x) ==
    CASE n.cls = "RBFN" -> RBFN_evaluate(n, x)
      [] n.cls \in {"NormalizedRBFN", "AdaptiveRBFN"} -> NormalizedRBFN_evaluate(n, x)
      [] n.cls \in {"HyperplaneRBFN", "AdaptiveHyperplaneRBFN"} ->
            HyperplaneRBFN_evaluate(n, x)

\* An error of the wrong sign: p - _y
ErrorReversed(y, p) == Vec(LAMBDA o : FSub(p[o], y[o]), Len(p))

\* error = _y - p
Error(y, p) == Vec(LAMBDA o : FSub(y[o], p[o]), Len(p))

\* error.reshape((len(error), 1)) * self.h
ErrorTimes_h(error, h) ==
    Vec(LAMBDA o : Vec(LAMBDA b : FMul(error[o], h[o][b]), Len(h[o])), Len(h))

\* self.alpha * error.reshape((len(error), 1)) * self.h
AlphaErrorTimes_h(alpha, error, h) ==
    Vec(LAMBDA o : Vec(LAMBDA b : FMul(FMul(alpha, error[o]), h[o][b]), Len(h[o])), Len(h))

\* a scalar times a matrix
Scaled(k, m) == Vec(LAMBDA o : Vec(LAMBDA b : FMul(k, m[o][b]), Len(m[o])), Len(m))

\* (np.ones(self.center_weights.shape) * delta.reshape((outdim, bases, 1))) * c
C_delta(n, delta) ==
    Vec(LAMBDA o : Vec(LAMBDA b :
        Vec(LAMBDA d :
            FMul(FMul(One, delta[o][b]), n.c[b][d]), Len(n.center_weights[o][b])), Len(n.center_weights[o])), Len(n.center_weights))

\* for _x, _y in zip(x, y): n = Body(n, _x, _y)
RECURSIVE ForZip(_, _, _, _)
ForZip(Body(_, _, _), n, x, y) ==
    IF x = <<>> \/ y = <<>> THEN n
    ELSE ForZip(Body, Body(n, Head(x), Head(y)), Tail(x), Tail(y))

\* self.weights += delta
RBFN_weights(n, delta) == [n EXCEPT !.weights = IAdd2(n.weights, delta)]

\* RBFN.train's loop body after the forward pass e = [n, p]
RBFN_update(e, y) ==
    RBFN_weights(e.n, AlphaErrorTimes_h(e.n.alpha, Error(y, e.p), e.n.h))

\* The body of RBFN.train's loop.
RBFN_train_body(n, x, y) == RBFN_update(evaluate(n, x), y)

\* A train that computes every sample's delta from the weights the call
\* began with, and then adds them all (a batch update).
BatchAdd(n0, acc, one) ==
    [one EXCEPT !.weights = IAdd2(acc.weights,
        Vec(LAMBDA o : Vec(LAMBDA b :
            FSub(one.weights[o][b], n0.weights[o][b]), Len(n0.weights[o])), Len(n0.weights)))]

RECURSIVE BatchLoop(_, _, _, _)
BatchLoop(n0, acc, x, y) ==
    IF x = <<>> \/ y = <<>> THEN acc
    ELSE BatchLoop(n0, BatchAdd(n0, acc, RBFN_train_body(n0, Head(x), Head(y))),
                   Tail(x), Tail(y))

RBFN_train_batch(n, x, y) == BatchLoop(n, n, x, y)

\* RBFN.train, inherited by NormalizedRBFN
RBFN_train(n, x, y) == ForZip(RBFN_train_body, n, x, y)

\* self.weights += delta; self.center_weights += c_delta
HyperplaneRBFN_weights(n, delta) ==
    [n EXCEPT !.weights = IAdd2(n.weights, delta),
              !.center_weights = IAdd3(n.center_weights, C_delta(n, delta))]

\* HyperplaneRBFN.train's loop body after the forward pass e = [n, p]
HyperplaneRBFN_update(e, y) ==
    HyperplaneRBFN_weights(e.n, AlphaErrorTimes_h(e.n.alpha, Error(y, e.p), e.n.h))

\* The body of HyperplaneRBFN.train's loop.
HyperplaneRBFN_train_body(n, x, y) == HyperplaneRBFN_update(evaluate(n, x), y)

\* HyperplaneRBFN.train
HyperplaneRBFN_train(n, x, y) == ForZip(HyperplaneRBFN_train_body, n, x, y)

\* An m1 without the distance: 2 / self.neurons.sigma
M1_NoDistance(n) ==
    Vec(LAMBDA b : Vec(LAMBDA d :
        FDiv(2 * One, n.sigma[b][d]), Len(n.c[b])), Len(n.c))

\* m1 = 2*self.neurons.c / self.neurons.sigma
M1(n) ==
    Vec(LAMBDA b : Vec(LAMBDA d :
        FDiv(FMul(2 * One, n.c[b][d]), n.sigma[b][d]), Len(n.c[b])), Len(n.c))

\* self.weights - p.reshape((len(p), 1))
WeightsMinus_p(weights, p) ==
    Vec(LAMBDA o : Vec(LAMBDA b : FSub(weights[o][b], p[o]), Len(weights[o])), Len(weights))

\* self.neurons.sigma += m_delta * self.neurons.c
SigmaStep(sigma, m_delta, c) ==
    Vec(LAMBDA b : Vec(LAMBDA d :
        FAdd(sigma[b][d], FMul(m_delta[b][d], c[b][d])), Len(sigma[b])), Len(sigma))

\* self.neurons.mu += m_delta; self.neurons.sigma += m_delta * self.neurons.c
KernelStep(n, m_delta) ==
    [n EXCEPT !.mu = IAdd2(n.mu, m_delta),
              !.sigma = SigmaStep(n.sigma, m_delta, n.c)]

\* delta * (m1 * m2), each tiled to the shape (outdim, bases, indim)
AdaptiveRBFN_terms(n, delta, m1, m2) ==
    Vec(LAMBDA o : Vec(LAMBDA b : Vec(LAMBDA d :
        FMul(delta[o][b], FMul(m1[b][d], m2[o][b])), n.indim), Len(m1)), n.outdim)

\* AdaptiveRBFN.train: m_delta, from the weights already updated
AdaptiveRBFN_m_delta(n, p, delta) ==
    Scaled(n.eta, SumAxis0(AdaptiveRBFN_terms(n, delta, M1(n),
                                              WeightsMinus_p(n.weights, p))))

\* AdaptiveRBFN.train's loop body from m1 on, the weights updated
AdaptiveRBFN_kernel(n, p, delta) == KernelStep(n, AdaptiveRBFN_m_delta(n, p, delta))

\* self.weights += self.alpha * delta, and the rest of the loop body
AdaptiveRBFN_weights(n, p, delta) ==
    AdaptiveRBFN_kernel([n EXCEPT !.weights = IAdd2(n.weights, Scaled(n.alpha, delta))],
                        p, delta)

\* AdaptiveRBFN.train's loop body after the forward pass e = [n, p]
AdaptiveRBFN_update(e, y) ==
    AdaptiveRBFN_weights(e.n, e.p, ErrorTimes_h(Error(y, e.p), e.n.h))

\* The body of AdaptiveRBFN.train's loop.
AdaptiveRBFN_train_body(n, x, y) == AdaptiveRBFN_update(evaluate(n, x), y)

\* AdaptiveRBFN.train
AdaptiveRBFN_train(n, x, y) == ForZip(AdaptiveRBFN_train_body, n, x, y)

\* Terms whose m4 is outside the product with delta:
\* delta * (m1 * (m2 + m3)) - m4
AdaptiveHyperplaneRBFN_terms_m4_outside(n, delta, m1, m2, m3) ==
    Vec(LAMBDA o : Vec(LAMBDA b : Vec(LAMBDA d :
        FSub(FMul(delta[o][b], FMul(m1[b][d], FAdd(m2[o][b], m3[o][b]))),
             FDiv(n.center_weights[o][b][d], n.sigma[b][d])), n.indim), Len(m1)), n.outdim)

\* delta * (m1 * (m2 + m3) - m4), each tiled to the shape (outdim, bases,
\* indim), with m4 = self.center_weights / self.neurons.sigma
AdaptiveHyperplaneRBFN_terms(n, delta, m1, m2, m3) ==
    Vec(LAMBDA o : Vec(LAMBDA b : Vec(LAMBDA d :
        FMul(delta[o][b],
             FSub(FMul(m1[b][d], FAdd(m2[o][b], m3[o][b])),
                  FDiv(n.center_weights[o][b][d], n.sigma[b][d]))), n.indim), Len(m1)), n.outdim)

\* AdaptiveHyperplaneRBFN.train: m_delta, from the weights and the
\* center_weights already updated
AdaptiveHyperplaneRBFN_m_delta(n, p, delta) ==
    Scaled(n.eta, SumAxis0(AdaptiveHyperplaneRBFN_terms(n, delta, M1(n),
                               HyperplaneTerm(n.center_weights, n.c),
                               WeightsMinus_p(n.weights, p))))

\* AdaptiveHyperplaneRBFN.train's loop body from m1 on
AdaptiveHyperplaneRBFN_kernel(n, p, delta) ==
    KernelStep(n, AdaptiveHyperplaneRBFN_m_delta(n, p, delta))

\* self.center_weights += c_delta, and the rest of the loop body
AdaptiveHyperplaneRBFN_center_weights(n, p, delta) ==
    AdaptiveHyperplaneRBFN_kernel(
        [n EXCEPT !.center_weights = IAdd3(n.center_weights, C_delta(n, delta))],
        p, delta)

\* self.weights += self.alpha * delta, and the rest of the loop body
AdaptiveHyperplaneRBFN_weights(n, p, delta) ==
    AdaptiveHyperplaneRBFN_center_weights(
        [n EXCEPT !.weights = IAdd2(n.weights, Scaled(n.alpha, delta))], p, delta)

\* AdaptiveHyperplaneRBFN.train's loop body after the forward pass e = [n, p]
AdaptiveHyperplaneRBFN_update(e, y) ==
    AdaptiveHyperplaneRBFN_weights(e.n, e.p, ErrorTimes_h(Error(y, e.p), e.n.h))

\* The body of AdaptiveHyperplaneRBFN.train's loop.
AdaptiveHyperplaneRBFN_train_body(n, x, y) ==
    AdaptiveHyperplaneRBFN_update(evaluate(n, x), y)

\* AdaptiveHyperplaneRBFN.train
AdaptiveHyperplaneRBFN_train(n, x, y) == ForZip(AdaptiveHyperplaneRBFN_train_body, n, x, y)

\* self.train(x, y): dispatch on the network's class
train(n, x, y) ==
    CASE n.cls \in {"RBFN", "NormalizedRBFN"} -> RBFN_train(n, x, y)
      [] n.cls = "HyperplaneRBFN" -> HyperplaneRBFN_train(n, x, y)
      [] n.cls = "AdaptiveRBFN" -> AdaptiveRBFN_train(n, x, y)
      [] n.cls = "AdaptiveHyperplaneRBFN" -> AdaptiveHyperplaneRBFN_train(n, x, y)

\* ------------------------------------------------------------------------
\* State
\* ------------------------------------------------------------------------

VARIABLES
    cls, kind,                      \* the classes of the network and of its kernel
    indim, bases, outdim, alpha, eta,
    weights, center_weights, h,     \* fields of the network
    mu, sigma, kappa, c,            \* fields of the kernel (self.neurons)
    op, eval_x, arg_x, arg_y,       \* the last call and its arguments
    ret,                            \* the vector it returned (train returns self)
    pre,                            \* the network as it was when the last call began
    calls,                          \* calls made so far
    cursor,                         \* the caller's place in its stream of samples
    pc, i, p, delta, m_delta,       \* AdaptiveHyperplaneRBFN.train in progress
    fwd, log                        \* its last forward pass, its writes in this sample

object == <<cls, kind, indim, bases, outdim, alpha, eta,
            weights, center_weights, h, mu, sigma, kappa, c>>
call == <<op, eval_x, arg_x, arg_y, ret, pre, calls, cursor>>
frame == <<pc, i, p, delta, m_delta, fwd, log>>
vars == <<object, call, frame>>

\* The network object as a value.
Net ==
    [cls |-> cls, kind |-> kind, indim |-> indim, bases |-> bases,
     outdim |-> outdim, alpha |-> alpha, eta |-> eta,
     weights |-> weights, center_weights |-> center_weights, h |-> h,
     mu |-> mu, sigma |-> sigma, kappa |-> kappa, c |-> c]

\* The object's fields become those of n.
Becomes(n) ==
    /\ cls' = n.cls /\ kind' = n.kind /\ indim' = n.indim /\ bases' = n.bases
    /\ outdim' = n.outdim /\ alpha' = n.alpha /\ eta' = n.eta
    /\ weights' = n.weights /\ center_weights' = n.center_weights /\ h' = n.h
    /\ mu' = n.mu /\ sigma' = n.sigma /\ kappa' = n.kappa /\ c' = n.c

\* ------------------------------------------------------------------------
\* Bounds and inputs
\* ------------------------------------------------------------------------

MaxCalls == 2
MaxBatch == 2
MaxMagUnits == 16
MaxMag == MaxMagUnits * Scale
MinSigma == Fx(5, 1)

Classes ==
    {"RBFN", "NormalizedRBFN", "HyperplaneRBFN", "AdaptiveRBFN", "AdaptiveHyperplaneRBFN"}
Hyperplane == {"HyperplaneRBFN", "AdaptiveHyperplaneRBFN"}
Adaptive == {"AdaptiveRBFN", "AdaptiveHyperplaneRBFN"}

\* <<indim, bases per dimension, outdim>>
Archs == {<<1, 1, 1>>, <<1, 2, 1>>, <<2, 1, 2>>, <<2, 2, 1>>}

\* <<alpha, eta>>
Rates == {<<Fx(1, 1), Fx(5, 1)>>}

Seeds == 0..1

RECURSIVE Pow(_, _)
Pow(b, e) == IF e = 0 THEN 1 ELSE b * Pow(b, e - 1)

\* 2*np.random.random(shape) - 1: any numbers in [-1, 1).  Draw number seed
\* gives entry k the value Drawn(seed, k); draw 0 is the all-zero draw.
Drawn(seed, k) ==
    LET grid == <<0, Fx(5, 1), 0 - Fx(25, 2), Fx(75, 2), 0 - One>>
    IN  grid[((seed * (k + 1)) % 5) + 1]

\* The kernel parameters the caller passes: b centers per dimension on a
\* grid (0 for b = 1, -1 and 1 for b = 2), of shape (b^indim, indim).
Centers(D, b) ==
    Vec(LAMBDA k : Vec(LAMBDA d :
        IF b = 1 THEN 0 ELSE (2 * (((k - 1) \div Pow(b, d - 1)) % b) - 1) * One, D), Pow(b, D))

\* The widths (sigma or kappa): all 1, or 2 and 1/2 in turn.
Widths(D, b, kseed) ==
    Vec(LAMBDA k : Vec(LAMBDA d :
        IF kseed = 0 THEN One ELSE IF (k + d) % 2 = 0 THEN 2 * One ELSE Half, D), Pow(b, D))

\* Weights of the shape (bases, outdim)
RandomWeightsTransposed(wseed, O, B) ==
    Vec(LAMBDA k : Vec(LAMBDA o : Drawn(wseed, (o - 1) * B + k), O), B)

\* 2*np.random.random((outdim, self.bases)) - 1
RandomWeights(wseed, O, B) ==
    Vec(LAMBDA o : Vec(LAMBDA k : Drawn(wseed, (o - 1) * B + k), B), O)

\* RBFN.__init__ and the __init__ of the subclasses, on a kernel built by
\* GaussianRBF.__init__ or VonMisesRBF.__init__.
Construct(class, kernel, D, b, O, a, e, wseed, cseed, kseed) ==
    [cls |-> class, kind |-> kernel, indim |-> D, bases |-> Pow(b, D),
     outdim |-> O, alpha |-> a,
     eta |-> IF class \in Adaptive THEN e ELSE None,
     weights |-> RandomWeights(wseed, O, Pow(b, D)),
     center_weights |->
        IF class \in Hyperplane
        THEN Vec(LAMBDA o : Vec(LAMBDA k : Vec(LAMBDA d :
                Drawn(cseed, ((o - 1) * Pow(b, D) + k - 1) * D + d), D), Pow(b, D)), O)
        ELSE None,
     h |-> None,
     mu |-> Centers(D, b),
     sigma |-> IF kernel = "GaussianRBF" THEN Widths(D, b, kseed) ELSE None,
     kappa |-> IF kernel = "VonMisesRBF" THEN Widths(D, b, kseed) ELSE None,
     c |-> None]

\* The caller's stream of samples, read cyclically: inputs of length D (the
\* second one far from every center) and targets of length O.
Inputs(D) ==
    IF D = 1 THEN <<  <<0>>, <<7 * One>>, <<Half>>, <<0 - One>>  >>
    ELSE <<  <<0, 0>>, <<7 * One, 7 * One>>, <<Half, 0>>, <<0 - One, One>>  >>

Targets(O) ==
    IF O = 1 THEN <<  <<One>>, <<One>>, <<0>>, <<0 - Half>>  >>
    ELSE <<  <<One, 0>>, <<One, One>>, <<0, One>>, <<0 - Half, Half>>  >>

StreamLen == Len(Inputs(1))

Finite(v) == \A o \in DOMAIN v : ~IsNaN(v[o])

\* The next n samples of the stream from place j on.  The target of a
\* sample is the stream's or, when fit, the network's present prediction
\* for its input (an exactly fitted sample), where that is finite.
DataX(D, j, n) == Vec(LAMBDA m : Inputs(D)[((j + m - 2) % StreamLen) + 1], n)

Fitted(pred, fit, y) == IF fit /\ Finite(pred) THEN pred ELSE y

DataY(net, j, n, fit) ==
    Vec(LAMBDA m :
        Fitted(evaluate(net, DataX(net.indim, j, n)[m]).p, fit,
               Targets(net.outdim)[((j + m - 2) % StreamLen) + 1]), n)

\* Every number of the matrix is a NaN or between lo and hi in magnitude.
Within2(m, lo, hi) ==
    \A a \in DOMAIN m : \A b \in DOMAIN m[a] :
        IsNaN(m[a][b]) \/ (Abs(m[a][b]) <= hi /\ Abs(m[a][b]) >= lo)

\* Every stored parameter is a NaN or below MaxMag, sigma is not near 0,
\* and the caches hold no number out of the model's range.
InRange(n) ==
    /\ Within2(n.weights, 0, MaxMag)
    /\ Within2(n.mu, 0, MaxMag)
    /\ n.sigma # None => Within2(n.sigma, MinSigma, MaxMag)
    /\ n.center_weights # None =>
          \A o \in DOMAIN n.center_weights : Within2(n.center_weights[o], 0, MaxMag)
    /\ n.c # None => Within2(n.c, 0, Limit)
    /\ n.h # None => Within2(n.h, 0, Limit)

\* ------------------------------------------------------------------------
\* Construction and the two methods, each call one step
\* ------------------------------------------------------------------------

Idle ==
    /\ pc = "idle" /\ i = 0 /\ p = None /\ delta = None /\ m_delta = None
    /\ fwd = None /\ log = <<>>

Constructed(n) ==
    /\ cls = n.cls /\ kind = n.kind /\ indim = n.indim /\ bases = n.bases
    /\ outdim = n.outdim /\ alpha = n.alpha /\ eta = n.eta
    /\ weights = n.weights /\ center_weights = n.center_weights /\ h = n.h
    /\ mu = n.mu /\ sigma = n.sigma /\ kappa = n.kappa /\ c = n.c
    /\ op = "init" /\ eval_x = None /\ arg_x = None /\ arg_y = None /\ ret = None
    /\ pre = None /\ calls = 0
    /\ cursor \in 1..2
    /\ Idle

Init ==
    \E class \in Classes, kernel \in {"GaussianRBF", "VonMisesRBF"},
       arch \in Archs, rate \in Rates, seed \in Seeds :
        /\ class \in Adaptive => kernel = "GaussianRBF"
        /\ Constructed(Construct(class, kernel, arch[1], arch[2], arch[3],
                                 rate[1], rate[2], seed + 1, seed, seed))

\* The caller moves n samples on in its stream.
Advance(n) == cursor' = ((cursor + n - 1) % StreamLen) + 1

\* net.evaluate(x) leaves the network e.n and returns e.p
Evaluated(x, e) ==
    /\ InRange(e.n)
    /\ \A o \in DOMAIN e.p : e.p[o] # Out
    /\ Becomes(e.n)
    /\ ret' = e.p

\* net.train(x, y) leaves the network n
Trained(n) == InRange(n) /\ Becomes(n)

\* net.evaluate(x)
EvaluateCall(x) ==
    /\ Evaluated(x, evaluate(Net, x))
    /\ op' = "evaluate" /\ eval_x' = x /\ arg_x' = None /\ arg_y' = None
    /\ pre' = Net /\ calls' = calls + 1
    /\ Advance(1)
    /\ UNCHANGED frame

\* net.train(x, y)
TrainCall(x, y) ==
    /\ Trained(train(Net, x, y))
    /\ ret' = None
    /\ op' = "train" /\ eval_x' = None /\ arg_x' = x /\ arg_y' = y
    /\ pre' = Net /\ calls' = calls + 1
    /\ Advance(Len(x))
    /\ UNCHANGED frame

Evaluate(x) == calls < MaxCalls /\ EvaluateCall(x)

Train(x, y) == calls < MaxCalls /\ TrainCall(x, y)

Next ==
    \/ Evaluate(Inputs(indim)[cursor])
    \/ \E n \in 0..MaxBatch, fit \in BOOLEAN :
          Train(DataX(indim, cursor, n), DataY(Net, cursor, n, fit))

Spec == Init /\ [][Next]_vars

\* ------------------------------------------------------------------------
\* Repeated training of one RBFN on the one sample ([0], [1])
\* ------------------------------------------------------------------------

MaxEpochs == 60

\* Values of 2*np.random.random() - 1: the numbers of [-1, 1) on a grid.
InitialWeights == {(w * Scale) \div 20 : w \in -20..19}

\* RBFN(1, 1, 1, GaussianRBF(mu=[[0]], sigma=[[1]]), alpha=0.1)
InitConv ==
    \E w \in InitialWeights :
        /\ Constructed([Construct("RBFN", "GaussianRBF", 1, 1, 1, Fx(1, 1), None, 0, 0, 0)
                            EXCEPT !.weights = <<<<w>>>>])
        /\ cursor = 1

\* One epoch: net.train([[0]], [[1]])
Epoch ==
    /\ op \in {"init", "train"}
    /\ calls < MaxEpochs
    /\ TrainCall(<<<<0>>>>, <<<<One>>>>)

\* net.evaluate([0]) after the epochs made so far
Probe ==
    /\ op = "train"
    /\ EvaluateCall(<<0>>)

NextConv == Epoch \/ Probe

SpecConv == InitConv /\ [][NextConv]_vars

\* ------------------------------------------------------------------------
\* AdaptiveHyperplaneRBFN.train, one statement a step
\* ------------------------------------------------------------------------

\* An order that updates the kernel parameters before the weights.
ThenKernelFirst(stmt) ==
    CASE stmt = "evaluate" -> "delta"
      [] stmt = "delta" -> "m_delta"
      [] stmt = "m_delta" -> "mu"
      [] stmt = "mu" -> "sigma"
      [] stmt = "sigma" -> "weights"
      [] stmt = "weights" -> "center_weights"
      [] stmt = "center_weights" -> "for"

\* The statement that follows a statement of the loop's body.
Then(stmt) ==
    CASE stmt = "evaluate" -> "delta"
      [] stmt = "delta" -> "weights"
      [] stmt = "weights" -> "center_weights"
      [] stmt = "center_weights" -> "m_delta"
      [] stmt = "m_delta" -> "mu"
      [] stmt = "mu" -> "sigma"
      [] stmt = "sigma" -> "for"

InitSteps ==
    \E arch \in Archs, rate \in Rates, seed \in Seeds :
        Constructed(Construct("AdaptiveHyperplaneRBFN", "GaussianRBF",
                              arch[1], arch[2], arch[3],
                              rate[1], rate[2], seed + 1, seed, seed))

\* net.train(x, y) is called
CallTrain(x, y) ==
    /\ pc = "idle" /\ calls < MaxCalls
    /\ InRange(train(Net, x, y))
    /\ op' = "train" /\ eval_x' = None /\ arg_x' = x /\ arg_y' = y
    /\ ret' = None /\ pre' = Net /\ calls' = calls + 1
    /\ Advance(Len(x))
    /\ pc' = "for" /\ i' = 0 /\ log' = <<>>
    /\ UNCHANGED <<object, p, delta, m_delta, fwd>>

\* for _x, _y in zip(x, y): the next sample, or return self
For ==
    /\ pc = "for"
    /\ IF i < Len(arg_x) /\ i < Len(arg_y)
       THEN /\ i' = i + 1 /\ pc' = "evaluate" /\ log' = <<>>
            /\ UNCHANGED <<object, call, p, delta, m_delta, fwd>>
       ELSE /\ ret' = None /\ pc' = "idle" /\ i' = 0
            /\ p' = None /\ delta' = None /\ m_delta' = None
            /\ fwd' = None /\ log' = <<>>
            /\ UNCHANGED <<object, op, eval_x, arg_x, arg_y, pre, calls, cursor>>

\* The forward pass leaves the network e.n and returns e.p
Forward(e) == Becomes(e.n) /\ p' = e.p

\* p = self.evaluate(_x)
StepEvaluate ==
    /\ pc = "evaluate"
    /\ Forward(evaluate(Net, arg_x[i]))
    /\ fwd' = Net /\ log' = Append(log, "evaluate") /\ pc' = Then(pc)
    /\ UNCHANGED <<call, i, delta, m_delta>>

\* error = _y - p; delta = error.reshape((len(error), 1)) * self.h
StepDelta ==
    /\ pc = "delta"
    /\ delta' = ErrorTimes_h(Error(arg_y[i], p), h)
    /\ pc' = Then(pc)
    /\ UNCHANGED <<object, call, i, p, m_delta, fwd, log>>

\* self.weights += self.alpha * delta
StepWeights ==
    /\ pc = "weights"
    /\ Becomes([Net EXCEPT !.weights = IAdd2(weights, Scaled(alpha, delta))])
    /\ log' = Append(log, "weights") /\ pc' = Then(pc)
    /\ UNCHANGED <<call, i, p, delta, m_delta, fwd>>

\* self.center_weights += c_delta
StepCenterWeights ==
    /\ pc = "center_weights"
    /\ Becomes([Net EXCEPT
                  !.center_weights = IAdd3(center_weights, C_delta(Net, delta))])
    /\ log' = Append(log, "center_weights") /\ pc' = Then(pc)
    /\ UNCHANGED <<call, i, p, delta, m_delta, fwd>>

\* m1, m2, m3, m4 and m_delta
StepMDelta ==
    /\ pc = "m_delta"
    /\ m_delta' = AdaptiveHyperplaneRBFN_m_delta(Net, p, delta)
    /\ pc' = Then(pc)
    /\ UNCHANGED <<object, call, i, p, delta, fwd, log>>

\* self.neurons.mu += m_delta
StepMu ==
    /\ pc = "mu"
    /\ Becomes([Net EXCEPT !.mu = IAdd2(mu, m_delta)])
    /\ log' = Append(log, "mu") /\ pc' = Then(pc)
    /\ UNCHANGED <<call, i, p, delta, m_delta, fwd>>

\* self.neurons.sigma += m_delta * self.neurons.c
StepSigma ==
    /\ pc = "sigma"
    /\ Becomes([Net EXCEPT !.sigma = SigmaStep(sigma, m_delta, c)])
    /\ log' = Append(log, "sigma") /\ pc' = Then(pc)
    /\ UNCHANGED <<call, i, p, delta, m_delta, fwd>>

NextSteps ==
    \/ \E n \in 0..MaxBatch :
          CallTrain(DataX(indim, cursor, n), DataY(Net, cursor, n, FALSE))
    \/ For
    \/ StepEvaluate
    \/ StepDelta
    \/ StepWeights
    \/ StepCenterWeights
    \/ StepMDelta
    \/ StepMu
    \/ StepSigma

SpecSteps == InitSteps /\ [][NextSteps]_vars
\* ------------------------------------------------------------------------
\* What the claims speak of
\* ------------------------------------------------------------------------

\* The learned parameters of a network.
Learned(n) == <<n.weights, n.center_weights, n.mu, n.sigma, n.kappa>>

\* What is fixed at construction.
Architecture(n) == <<n.cls, n.kind, n.indim, n.bases, n.outdim, n.alpha, n.eta>>

\* The forward pass the last call began with: its prediction and its error.
FirstPrediction == evaluate(pre, arg_x[1]).p
FirstError == Error(arg_y[1], FirstPrediction)

Nonzero(v) == \E o \in DOMAIN v : v[o] # 0

NoNaN2(m) == \A a \in DOMAIN m : \A b \in DOMAIN m[a] : ~IsNaN(m[a][b])

\* One-sample calls train([x_1], [y_1]), ..., train([x_N], [y_N]) in turn.
RECURSIVE SingleCalls(_, _, _)
SingleCalls(n, x, y) ==
    IF x = <<>> THEN n
    ELSE SingleCalls(train(n, <<Head(x)>>, <<Head(y)>>), Tail(x), Tail(y))

\* C1: one call train(X, Y) on N samples leaves weights, center_weights, mu
\* and sigma as the N calls train([x_i], [y_i]), made in the same order from
\* the same network, leave them.
C1_TrainEqualsSingleCalls ==
    op = "train" => Learned(Net) = Learned(SingleCalls(pre, arg_x, arg_y))

\* A call on two samples whose first sample moved the weights, so that the
\* second forward pass saw them moved.
C1_Witness ==
    /\ op = "train" /\ Len(arg_x) = 2
    /\ NoNaN2(weights)
    /\ train(pre, <<arg_x[1]>>, <<arg_y[1]>>).weights # pre.weights
    /\ weights # train(pre, <<arg_x[1]>>, <<arg_y[1]>>).weights

Coarse == Fx(1, 1)

AllZero3(t) ==
    \A o \in DOMAIN t : \A b \in DOMAIN t[o] : \A d \in DOMAIN t[o][b] : t[o][b][d] = 0

\* C4: with center_weights all zero, what HyperplaneRBFN.evaluate(x) returns
\* is what NormalizedRBFN.evaluate(x) returns for the same weights and kernel.
C4_ZeroHyperplaneIsNormalized ==
    (op = "evaluate" /\ cls \in Hyperplane /\ AllZero3(pre.center_weights))
    => ret = NormalizedRBFN_evaluate(pre, eval_x).p

\* An evaluation away from the centers (some distance is not 0) that
\* returned a finite nonzero number.
C4_Witness ==
    /\ op = "evaluate" /\ cls = "HyperplaneRBFN" /\ AllZero3(pre.center_weights)
    /\ bases > 1
    /\ \E b \in DOMAIN c : \E d \in DOMAIN c[b] : c[b][d] # 0
    /\ Finite(ret) /\ ret[1] # 0
    /\ ret = NormalizedRBFN_evaluate(pre, eval_x).p

\* The classes whose evaluate is NormalizedRBFN.evaluate.
NormalizedEvaluate == {"NormalizedRBFN", "AdaptiveRBFN"}

SingleBasisOutput ==
    /\ \A o \in DOMAIN h : h[o][1] = One
    /\ \A o \in DOMAIN ret : ret[o] = weights[o][1]

\* C5 as stated: with one basis, for every input, the normalized activation
\* is 1 and evaluate returns weights[o][0] for each output o.
C5_SingleBasisAlways ==
    (op = "evaluate" /\ cls \in NormalizedEvaluate /\ bases = 1)
    => SingleBasisOutput

\* C5 amended: so it is whenever the raw activation is a number other than
\* 0 (it is 0 when exp underflows, far from the center, and NaN once a
\* kernel parameter is NaN).
C5_SingleBasisUnlessUnderflow ==
    (/\ op = "evaluate" /\ cls \in NormalizedEvaluate /\ bases = 1
     /\ activation(pre, eval_x).g[1] \notin {0, NaN})
    => SingleBasisOutput

\* An evaluation whose raw activation is neither 0 nor 1.
C5_Witness ==
    /\ op = "evaluate" /\ cls = "NormalizedRBFN" /\ bases = 1
    /\ activation(pre, eval_x).g[1] \notin {0, One}
    /\ weights[1][1] # 0
    /\ SingleBasisOutput

IsMatrix(m, rows, cols) ==
    /\ Len(m) = rows
    /\ \A a \in DOMAIN m : Len(m[a]) = cols

IsTensor(t, n1, n2, n3) ==
    /\ Len(t) = n1
    /\ \A a \in DOMAIN t : IsMatrix(t[a], n2, n3)

ParameterShapes ==
    /\ IsMatrix(mu, bases, indim)
    /\ IsMatrix(weights, outdim, bases)
    /\ cls \in Hyperplane => IsTensor(center_weights, outdim, bases, indim)
    /\ op = "evaluate" => Len(ret) = outdim

\* C6 as stated: after any sequence of calls, the empty one included, weights
\* is O x B, center_weights O x B x D, the cached h O x B, and evaluate
\* returns a vector of length O.
C6_ShapesAlways == ParameterShapes /\ IsMatrix(h, outdim, bases)

\* C6 amended: h is None until the first forward pass and O x B from then on.
C6_ShapesOnceEvaluated ==
    /\ ParameterShapes
    /\ h # None => IsMatrix(h, outdim, bases)
    /\ (op = "evaluate" \/ (op = "train" /\ arg_x # <<>>)) => h # None

C6_Witness ==
    /\ op = "train" /\ cls = "AdaptiveHyperplaneRBFN" /\ Len(arg_x) = 2
    /\ bases = 4 /\ indim = 2
    /\ IsMatrix(h, outdim, bases) /\ IsTensor(center_weights, outdim, bases, indim)
    /\ center_weights # pre.center_weights

\* C7: on one sample, AdaptiveHyperplaneRBFN.train adds to center_weights
\* what HyperplaneRBFN.train adds to them from the same network.
C7_SameCenterWeightStep ==
    (op = "train" /\ cls = "AdaptiveHyperplaneRBFN" /\ Len(arg_x) = 1)
    => center_weights =
          HyperplaneRBFN_train_body(pre, arg_x[1], arg_y[1]).center_weights

\* C9: train on RBFN, NormalizedRBFN or HyperplaneRBFN leaves mu and sigma
\* (or kappa) as they were, and evaluate on any class changes nothing but
\* the caches c and h.
C9_Frame ==
    /\ (op # "init" /\ cls \notin Adaptive) =>
          <<mu, sigma, kappa>> = <<pre.mu, pre.sigma, pre.kappa>>
    /\ op = "evaluate" =>
          (Learned(Net) = Learned(pre) /\ Architecture(Net) = Architecture(pre))

\* An evaluation that overwrote both caches of an earlier forward pass.
C9_Witness ==
    /\ op = "evaluate" /\ cls \notin Adaptive
    /\ pre.h # None /\ h # pre.h /\ c # pre.c
    /\ Learned(Net) = Learned(pre)

\* The network predicts y for x exactly.
ExactFit(n, x, y) ==
    LET q == evaluate(n, x).p
    IN  \A o \in DOMAIN q : ~IsNaN(q[o]) /\ q[o] = y[o]

\* C10: a train call whose samples the network all fits exactly changes no
\* learned parameter.
C10_ExactFitIsFixedPoint ==
    (op = "train" /\ \A j \in DOMAIN arg_x : ExactFit(pre, arg_x[j], arg_y[j]))
    => Learned(Net) = Learned(pre)

C10_Witness ==
    /\ op = "train" /\ Len(arg_x) = 2 /\ cls = "AdaptiveHyperplaneRBFN"
    /\ \A j \in DOMAIN arg_x : ExactFit(pre, arg_x[j], arg_y[j])
    /\ arg_y[1] # arg_y[2]
    /\ Learned(Net) = Learned(pre)
\* The epochs made when the last evaluate was called.
Epochs == calls - 1

Close(a, b, tol) == ~IsNaN(a) /\ Abs(a - b) <= tol

\* C2 as stated: after 50 epochs or more, evaluate([0]) is within 0.01 of 1.
C2_Within50Epochs ==
    (op = "evaluate" /\ Epochs >= 50) => Close(ret[1], One, Fx(1, 2))

\* C2 amended: it is after 51 epochs or more; after 50 the error of an
\* initial weight near -1 is still 2 * 0.9^50 > 0.01.
C2_Within51Epochs ==
    (op = "evaluate" /\ Epochs >= 51) => Close(ret[1], One, Fx(1, 2))

\* 51 epochs from the initial weight -1, the farthest from the target.
C2_Witness ==
    /\ op = "evaluate" /\ Epochs = 51
    /\ Abs(ret[1] - One) > Fx(9, 3) /\ Abs(ret[1] - One) <= Fx(1, 2)
\* What one sample writes, in the order the claim gives.
Writes == <<"evaluate", "weights", "center_weights", "mu", "sigma">>

IsPrefix(s, t) == Len(s) <= Len(t) /\ s = SubSeq(t, 1, Len(s))

\* The statements after the forward pass of the sample in hand.
InSample == pc \notin {"idle", "evaluate"} /\ i >= 1

\* C8: within one sample the forward pass comes first and once, then the
\* writes of weights, center_weights, mu and sigma in that order; p, h and
\* c stay those of that forward pass, which began from the parameters all
\* the earlier samples left; and the call ends as train(x, y) does.
C8_OrderWithinSample ==
    /\ IsPrefix(log, Writes)
    /\ InSample =>
          /\ <<p, h, c>> = <<evaluate(fwd, arg_x[i]).p, evaluate(fwd, arg_x[i]).n.h,
                              evaluate(fwd, arg_x[i]).n.c>>
          /\ Learned(fwd) = Learned(train(pre, SubSeq(arg_x, 1, i - 1),
                                                SubSeq(arg_y, 1, i - 1)))
    /\ (InSample /\ pc = "for") =>
          Net = AdaptiveHyperplaneRBFN_train_body(fwd, arg_x[i], arg_y[i])
    /\ (pc = "idle" /\ op = "train") => Net = train(pre, arg_x, arg_y)

\* The end of a second sample that wrote all four parameters, its forward
\* pass having begun from the weights the first sample had moved.
C8_Witness ==
    /\ pc = "for" /\ i = 2 /\ log = Writes
    /\ fwd.weights # pre.weights
    /\ NoNaN2(mu) /\ NoNaN2(sigma)
    /\ weights # fwd.weights /\ center_weights # fwd.center_weights
    /\ mu # fwd.mu /\ sigma # fwd.sigma
=============================================================================
